---- MODULE Spec2Model ----
(***************************************************************************)
(* Model of the surfel mapper node (surfel_mapper_node.cpp) and of the     *)
(* mapping core it drives (class SurfelMapper).                            *)
(*                                                                         *)
(* The node is modelled from its source.  The core (store, octree,         *)
(* fusion, queries) is modelled after the design document, sections 3, 4   *)
(* and 7, on a discretised geometry: an organised cloud is one row of      *)
(* pixels, pixel u back-projects to the lateral coordinate x = u, depths   *)
(* are integers and a sensor pose is a translation `off' along the         *)
(* optical axis.                                                           *)
(***************************************************************************)
EXTENDS Integers, Sequences, FiniteSets, TLC

VARIABLES
  mapper,         \* boost::shared_ptr<SurfelMapper>: <<>> (null) or <<object>>
  current_path,   \* nav_msgs::Path::ConstPtr: [valid |-> FALSE] is the null pointer
  cloudMsgQueue,  \* std::list of buffered keyframe messages
  use_update,     \* node parameter, read once in main()
  pc,             \* position of the main thread in the loop of main()
  active,         \* handlers that have been entered and have not returned yet
  out,            \* what the handler being executed published or wrote
  nKeyframes,     \* history: number of keyframes keyframeCallback received
  integrated,     \* history: ids of the keyframes passed to addPointCloudToScene
  lookup,         \* a time stamp and what roundTimeStamp / getSensorPosition
                  \* returned for it (used by the lookup specification only)
  ret             \* <<b>>: the service callback being executed returns b

vars == <<mapper, current_path, cloudMsgQueue, use_update, pc, active, out,
          nKeyframes, integrated, lookup, ret>>

(***************************************************************************)
(* Bounds of the model: the number of keyframes received, and the node     *)
(* parameters that main() reads (lines 484-495), here in small integer     *)
(* units (depth units, confidence counts, number of records).              *)
(***************************************************************************)
MaxKeyframes == 2
scene_size == 2
dmax == 2
octree_resolution == 4
preview_resolution == 4
preview_color_samples_in_voxel == 2
confidence_threshold == 2
min_scan_znormal == 2
min_kinect_dist == 2
max_kinect_dist == 9

MAX_MARKERS == 100000

Min(a, b) == IF a < b THEN a ELSE b
Max(a, b) == IF a > b THEN a ELSE b
Abs(a) == IF a < 0 THEN -a ELSE a

(***************************************************************************)
(* Time stamps (ros::Time: seconds and nanoseconds, both uint32).  The      *)
(* stamps of the model keep nsec < 10^9 and sec small, so that no          *)
(* operation on them leaves the range of uint32.                           *)
(***************************************************************************)
Stamp(s, n) == [sec |-> s, nsec |-> n]

TimeLT(a, b) == a.sec < b.sec \/ (a.sec = b.sec /\ a.nsec < b.nsec)
TimeGT(a, b) == TimeLT(b, a)
TimeLE(a, b) == ~TimeLT(b, a)

\* ros::Time - ros::Time: a normalised ros::Duration (0 <= nsec < 10^9)
DurationOf(a, b) ==
  IF a.nsec - b.nsec < 0
    THEN [sec |-> a.sec - b.sec - 1, nsec |-> a.nsec - b.nsec + 1000000000]
    ELSE [sec |-> a.sec - b.sec, nsec |-> a.nsec - b.nsec]

DurationLT(d, e) == d.sec < e.sec \/ (d.sec = e.sec /\ d.nsec < e.nsec)

\* variant: a remainder of exactly 0.5 ms is rounded up as well
roundTimeStampHalfUp(time_stamp) ==
  LET time_stamp_nsec_mod == time_stamp.nsec % 1000000
      full_ms == time_stamp.nsec - time_stamp_nsec_mod
      up == full_ms + 1000000
  IN IF time_stamp_nsec_mod >= 500000
       THEN IF up = 1000000000
              THEN [sec |-> time_stamp.sec + 1, nsec |-> 0]
              ELSE [sec |-> time_stamp.sec, nsec |-> up]
       ELSE [sec |-> time_stamp.sec, nsec |-> full_ms]

\* variant: a round-up that reaches a full second is not carried
roundTimeStampNoCarry(time_stamp) ==
  LET time_stamp_nsec_mod == time_stamp.nsec % 1000000
      full_ms == time_stamp.nsec - time_stamp_nsec_mod
  IN IF time_stamp_nsec_mod > 500000
       THEN [sec |-> time_stamp.sec, nsec |-> full_ms + 1000000]
       ELSE [sec |-> time_stamp.sec, nsec |-> full_ms]

\* variant: the carry clears the nanoseconds and forgets the second
roundTimeStampCarryLost(time_stamp) ==
  LET time_stamp_nsec_mod == time_stamp.nsec % 1000000
      full_ms == time_stamp.nsec - time_stamp_nsec_mod
      up == full_ms + 1000000
  IN IF time_stamp_nsec_mod > 500000
       THEN IF up = 1000000000
              THEN [sec |-> time_stamp.sec, nsec |-> 0]
              ELSE [sec |-> time_stamp.sec, nsec |-> up]
       ELSE [sec |-> time_stamp.sec, nsec |-> full_ms]

roundTimeStamp(time_stamp) ==
  LET time_stamp_nsec_mod == time_stamp.nsec % 1000000
      full_ms == time_stamp.nsec - time_stamp_nsec_mod
      up == full_ms + 1000000
  IN IF time_stamp_nsec_mod > 500000
       THEN IF up = 1000000000
              THEN [sec |-> time_stamp.sec + 1, nsec |-> 0]
              ELSE [sec |-> time_stamp.sec, nsec |-> up]
       ELSE [sec |-> time_stamp.sec, nsec |-> full_ms]

(***************************************************************************)
(* Messages the node receives.                                             *)
(***************************************************************************)
\* unit: the orientation quaternion of the pose has norm 1
PoseStamped(stamp, off, unit) == [stamp |-> stamp, off |-> off, unit |-> unit]
Pose(stamp, off) == PoseStamped(stamp, off, TRUE)
NoPose == Pose(Stamp(0, 0), 0)

NullPath == [valid |-> FALSE, poses |-> <<>>]
PathMsg(poses) == [valid |-> TRUE, poses |-> poses]

tB == Stamp(1, 400000)
tC == Stamp(1, 999600000)
tD == Stamp(2, 1700000)

PathMsgs ==
  { PathMsg(<<>>),
    PathMsg(<<Pose(tB, 0)>>),
    PathMsg(<<Pose(tC, 1)>>),
    PathMsg(<<Pose(tB, 0), Pose(tC, 1)>>),
    PathMsg(<<Pose(tB, 0), PoseStamped(tC, 1, FALSE), Pose(tD, 0)>>) }

KeyframeStamps == { Stamp(1, 300000), Stamp(2, 0) }

\* A pixel of an organised cloud after scan preprocessing: the point and its
\* estimated normal may be non-finite; nz is |n_z| in the camera frame.
Pixel(finite, nfinite, nz, z) ==
  [finite |-> finite, nfinite |-> nfinite, nz |-> nz, z |-> z]
Pix(z) == Pixel(TRUE, TRUE, 3, z)
NaNPix == Pixel(FALSE, FALSE, 0, 0)
NoNormalPix == Pixel(TRUE, FALSE, 0, 4)
GrazingPix == Pixel(TRUE, TRUE, 1, 4)
FarPix == Pixel(TRUE, TRUE, 3, 10)

Clouds ==
  { <<Pix(4), NaNPix>>,
    <<Pix(3), Pix(7), Pix(4)>>,
    <<Pix(7), NoNormalPix>>,
    <<GrazingPix, FarPix>> }

CameraInfoMsgs ==
  { [alpha |-> 5, beta |-> 5, cx |-> 1, cy |-> 1],
    [alpha |-> 0, beta |-> 5, cx |-> 1, cy |-> 1] }

(***************************************************************************)
(* getSensorPosition: pose of the current path for a keyframe time stamp.  *)
(* Indices i, j, k are the 0-based indices of the source.                  *)
(***************************************************************************)
RECURSIVE Bisect(_, _, _, _)
Bisect(poses, time_stamp_rounded, i, j) ==
  IF i + 1 < j
    THEN LET k == (i + j) \div 2
         IN IF TimeLE(roundTimeStamp(poses[k + 1].stamp), time_stamp_rounded)
              THEN Bisect(poses, time_stamp_rounded, k, j)
              ELSE Bisect(poses, time_stamp_rounded, i, k)
    ELSE <<i, j>>

\* variant: the range test compares the time stamps without rounding them
getSensorPositionUnroundedRange(time_stamp, path) ==
  LET time_stamp_rounded == roundTimeStamp(time_stamp)
      poses == path.poses
  IN IF ~path.valid THEN [found |-> FALSE, pose |-> NoPose]
     ELSE IF poses = <<>> THEN [found |-> FALSE, pose |-> NoPose]
     ELSE IF \/ TimeGT(poses[1].stamp, time_stamp)
             \/ TimeLT(poses[Len(poses)].stamp, time_stamp)
       THEN [found |-> FALSE, pose |-> NoPose]
     ELSE LET ij == Bisect(poses, time_stamp_rounded, 0, Len(poses) - 1)
              i == ij[1]
              j == ij[2]
              duri == DurationOf(roundTimeStamp(time_stamp), roundTimeStamp(poses[i + 1].stamp))
              durj == DurationOf(roundTimeStamp(poses[j + 1].stamp), roundTimeStamp(time_stamp))
              k == IF DurationLT(duri, durj) THEN i ELSE j
          IN [found |-> TRUE, pose |-> poses[k + 1]]

\* variant: the farther of the two bracketing poses is taken
getSensorPositionFarther(time_stamp, path) ==
  LET time_stamp_rounded == roundTimeStamp(time_stamp)
      poses == path.poses
  IN IF ~path.valid THEN [found |-> FALSE, pose |-> NoPose]
     ELSE IF poses = <<>> THEN [found |-> FALSE, pose |-> NoPose]
     ELSE IF \/ TimeGT(roundTimeStamp(poses[1].stamp), time_stamp_rounded)
             \/ TimeLT(roundTimeStamp(poses[Len(poses)].stamp), time_stamp_rounded)
       THEN [found |-> FALSE, pose |-> NoPose]
     ELSE LET ij == Bisect(poses, time_stamp_rounded, 0, Len(poses) - 1)
              i == ij[1]
              j == ij[2]
              duri == DurationOf(roundTimeStamp(time_stamp), roundTimeStamp(poses[i + 1].stamp))
              durj == DurationOf(roundTimeStamp(poses[j + 1].stamp), roundTimeStamp(time_stamp))
              k == IF DurationLT(duri, durj) THEN j ELSE i
          IN [found |-> TRUE, pose |-> poses[k + 1]]

\* variant: of two equally distant bracketing poses the earlier is taken
getSensorPositionTieEarlier(time_stamp, path) ==
  LET time_stamp_rounded == roundTimeStamp(time_stamp)
      poses == path.poses
  IN IF ~path.valid THEN [found |-> FALSE, pose |-> NoPose]
     ELSE IF poses = <<>> THEN [found |-> FALSE, pose |-> NoPose]
     ELSE IF \/ TimeGT(roundTimeStamp(poses[1].stamp), time_stamp_rounded)
             \/ TimeLT(roundTimeStamp(poses[Len(poses)].stamp), time_stamp_rounded)
       THEN [found |-> FALSE, pose |-> NoPose]
     ELSE LET ij == Bisect(poses, time_stamp_rounded, 0, Len(poses) - 1)
              i == ij[1]
              j == ij[2]
              duri == DurationOf(roundTimeStamp(time_stamp), roundTimeStamp(poses[i + 1].stamp))
              durj == DurationOf(roundTimeStamp(poses[j + 1].stamp), roundTimeStamp(time_stamp))
              k == IF ~DurationLT(durj, duri) THEN i ELSE j
          IN [found |-> TRUE, pose |-> poses[k + 1]]

getSensorPosition(time_stamp, path) ==
  LET time_stamp_rounded == roundTimeStamp(time_stamp)
      poses == path.poses
  IN IF ~path.valid THEN [found |-> FALSE, pose |-> NoPose]
     ELSE IF poses = <<>> THEN [found |-> FALSE, pose |-> NoPose]
     ELSE IF \/ TimeGT(roundTimeStamp(poses[1].stamp), time_stamp_rounded)
             \/ TimeLT(roundTimeStamp(poses[Len(poses)].stamp), time_stamp_rounded)
       THEN [found |-> FALSE, pose |-> NoPose]
     ELSE LET ij == Bisect(poses, time_stamp_rounded, 0, Len(poses) - 1)
              i == ij[1]
              j == ij[2]
              duri == DurationOf(roundTimeStamp(time_stamp), roundTimeStamp(poses[i + 1].stamp))
              durj == DurationOf(roundTimeStamp(poses[j + 1].stamp), roundTimeStamp(time_stamp))
              k == IF DurationLT(duri, durj) THEN i ELSE j
          IN [found |-> TRUE, pose |-> poses[k + 1]]

(***************************************************************************)
(* The mapping core (class SurfelMapper), after the design document.       *)
(* cloudScene holds the allocated records of the pre-allocated store in    *)
(* allocation order; octree holds one entry per inserted index, in         *)
(* insertion order, with the leaf (voxel) the index was inserted under.    *)
(***************************************************************************)
use_frustum == TRUE

Surfel(x, z, c, finite) == [x |-> x, z |-> z, c |-> c, finite |-> finite]
NaNSurfel == Surfel(0, 0, 0, FALSE)

SurfelMapper(scene_size_, use_update_, camera_params) ==
  [camera_params |-> camera_params, scene_size |-> scene_size_,
   use_update |-> use_update_, cloudScene |-> <<>>, octree |-> <<>>,
   status |-> "Ok"]

\* the leaf of side res that contains position p
Voxel(p, res) == <<p.x \div res, p.z \div res>>

getAllIndices(m) == [n \in 1..Len(m.octree) |-> m.octree[n].idx]

leafBucket(m, p) ==
  LET hits == SelectSeq(m.octree, LAMBDA e : e.leaf = Voxel(p, octree_resolution))
  IN [n \in 1..Len(hits) |-> hits[n].idx]

\* the pre-allocated array: records that were never allocated are non-finite
getCloudScene(m) ==
  [i \in 1..m.scene_size |->
     IF i <= Len(m.cloudScene) THEN m.cloudScene[i] ELSE NaNSurfel]

\* scan preprocessing filters (4.4.1): finite point, finite normal,
\* z-normal threshold, depth range
Survives(px) ==
  /\ px.finite
  /\ px.nfinite
  /\ px.nz >= min_scan_znormal
  /\ px.z >= min_kinect_dist
  /\ px.z <= max_kinect_dist

\* frustum test (4.1) of a map position seen from pose `pose'
InFrustum(q, pose, width) ==
  /\ q.x >= 1
  /\ q.x <= width
  /\ q.z - pose.off >= min_kinect_dist
  /\ q.z - pose.off <= max_kinect_dist

\* visibility pre-pass (4.4.2)
FrustumCandidates(m, pose, width) ==
  SelectSeq(getAllIndices(m), LAMBDA i : InFrustum(m.cloudScene[i], pose, width))

\* variant: a depth gap equal to dmax still counts as a match
WithinToleranceInclusive(gap) == gap <= dmax

\* 4.4.3 step 3: the depth gap is below dmax
WithinTolerance(gap) == gap < dmax

DepthGap(m, i, pose, z_new) == Abs((m.cloudScene[i].z - pose.off) - z_new)

\* 4.4.3 steps 1-3: index of the matching surfel, 0 when there is none
MatchOf(m, u, px, pose, width) ==
  LET p_map == [x |-> u, z |-> px.z + pose.off]
      cands == IF use_frustum THEN FrustumCandidates(m, pose, width)
                              ELSE leafBucket(m, p_map)
      kept == SelectSeq(cands, LAMBDA i : m.cloudScene[i].x = u)
  IN IF kept = <<>> THEN 0
     ELSE LET n == CHOOSE a \in 1..Len(kept) :
                     \A b \in 1..Len(kept) :
                        \/ DepthGap(m, kept[a], pose, px.z) < DepthGap(m, kept[b], pose, px.z)
                        \/ /\ DepthGap(m, kept[a], pose, px.z) = DepthGap(m, kept[b], pose, px.z)
                           /\ a <= b
          IN IF WithinTolerance(DepthGap(m, kept[n], pose, px.z)) THEN kept[n] ELSE 0

\* 4.4.3 step 4: blended coordinate, kept inside the voxel of the old one
ClampToVoxel(blended, old, res) ==
  LET lo == (old \div res) * res
      hi == lo + res - 1
      clamped == Max(lo, Min(hi, blended))
  IN IF 2 * Abs(clamped - blended) > res THEN old ELSE clamped

\* variant: the blended coordinate is not clamped
UpdatePositionUnclamped(old, new, k) == (k * old + new) \div (k + 1)

UpdatePosition(old, new, k) ==
  ClampToVoxel((k * old + new) \div (k + 1), old, octree_resolution)

\* variant: sign slip in the confidence count
UpdatedConfidenceDown(k) == k - 1

UpdatedConfidence(k) == k + 1

UpdateSurfel(s, p_map) ==
  [s EXCEPT !.x = UpdatePosition(s.x, p_map.x, s.c),
            !.z = UpdatePosition(s.z, p_map.z, s.c),
            !.c = UpdatedConfidence(s.c)]

\* variant: no capacity test
AllocateUnchecked(m) == Len(m.cloudScene) + 1

\* 4.2 allocate(): the new index, 0 when the store is full
Allocate(m) ==
  IF Len(m.cloudScene) >= m.scene_size THEN 0 ELSE Len(m.cloudScene) + 1

\* 4.4.3 step 5
InsertSurfel(m, p_map, finite) ==
  LET i == Allocate(m)
      s == Surfel(p_map.x, p_map.z, 1, finite)
  IN IF i = 0 THEN [m EXCEPT !.status = "OutOfCapacity"]
     ELSE [m EXCEPT !.cloudScene = Append(@, s),
                    !.octree = Append(@, [leaf |-> Voxel(s, octree_resolution), idx |-> i])]

\* variant: association is attempted whatever use_update says
FusePixelMatching(m, u, px, pose, width) ==
  IF ~Survives(px) THEN m
  ELSE LET p_map == [x |-> u, z |-> px.z + pose.off]
           match == MatchOf(m, u, px, pose, width)
       IN IF match # 0
            THEN [m EXCEPT !.cloudScene[match] = UpdateSurfel(@, p_map)]
            ELSE InsertSurfel(m, p_map, px.finite)

FusePixel(m, u, px, pose, width) ==
  IF ~Survives(px) THEN m
  ELSE LET p_map == [x |-> u, z |-> px.z + pose.off]
           match == IF m.use_update THEN MatchOf(m, u, px, pose, width) ELSE 0
       IN IF match # 0
            THEN [m EXCEPT !.cloudScene[match] = UpdateSurfel(@, p_map)]
            ELSE InsertSurfel(m, p_map, px.finite)

\* pixels in row-major order; the call ends at the first failed allocation
RECURSIVE FuseFrom(_, _, _, _)
FuseFrom(m, cloud, pose, u) ==
  IF u > Len(cloud) \/ m.status = "OutOfCapacity" THEN m
  ELSE FuseFrom(FusePixel(m, u, cloud[u], pose, Len(cloud)), cloud, pose, u + 1)

\* the inputs the core accepts
ValidIntrinsics(camera_params) ==
  /\ camera_params.alpha > 0 /\ camera_params.beta > 0
  /\ camera_params.cx > 0 /\ camera_params.cy > 0

ValidInput(m, pose) == pose.unit /\ ValidIntrinsics(m.camera_params)

addPointCloudToScene(m, cloud, pose) ==
  IF ~ValidInput(m, pose) THEN [m EXCEPT !.status = "InvalidInput"]
  ELSE FuseFrom([m EXCEPT !.status = "Ok"], cloud, pose, 1)

resetMap(m) == [m EXCEPT !.cloudScene = <<>>, !.octree = <<>>, !.status = "Ok"]

InBox(q, bb_min, bb_max) ==
  /\ bb_min.x <= q.x /\ q.x <= bb_max.x
  /\ bb_min.z <= q.z /\ q.z <= bb_max.z

Reliable(s) == s.c >= confidence_threshold

getBoundingBoxIndices(m, bb_min, bb_max) ==
  SelectSeq(getAllIndices(m),
            LAMBDA i : Reliable(m.cloudScene[i]) /\ InBox(m.cloudScene[i], bb_min, bb_max))

\* 4.5: one point per preview voxel, the mean of the first K reliable surfels
RECURSIVE SumSeq(_)
SumSeq(s) == IF s = <<>> THEN 0 ELSE Head(s) + SumSeq(Tail(s))

getCloudSceneDownsampled(m) ==
  LET rel == SelectSeq(getAllIndices(m), LAMBDA i : Reliable(m.cloudScene[i]))
      vox(i) == Voxel(m.cloudScene[i], preview_resolution)
      firsts == SelectSeq([n \in 1..Len(rel) |-> n],
                          LAMBDA n : \A k \in 1..(n - 1) : vox(rel[k]) # vox(rel[n]))
      sample(n) == SubSeq(SelectSeq(rel, LAMBDA i : vox(i) = vox(rel[n])), 1,
                          Min(preview_color_samples_in_voxel,
                              Len(SelectSeq(rel, LAMBDA i : vox(i) = vox(rel[n])))))
      mean(n, f(_)) == SumSeq([k \in 1..Len(sample(n)) |-> f(m.cloudScene[sample(n)[k]])])
                         \div Len(sample(n))
  IN [n \in 1..Len(firsts) |->
        [id |-> n, x |-> mean(firsts[n], LAMBDA s : s.x),
         z |-> mean(firsts[n], LAMBDA s : s.z), finite |-> TRUE]]

(***************************************************************************)
(* The node.  A handler is an operator on the node's global objects        *)
(*   g = [mapper, current_path, cloudMsgQueue, integrated]                 *)
(* (integrated records the calls of addPointCloudToScene).                 *)
(***************************************************************************)
Globals ==
  [mapper |-> mapper, current_path |-> current_path,
   cloudMsgQueue |-> cloudMsgQueue, integrated |-> integrated]

KeyframeMsg(id, stamp, cloud) == [id |-> id, stamp |-> stamp, cloud |-> cloud]

\* variant: a keyframe whose pose is not found is dropped and the loop goes on
RECURSIVE processLoopSkipping(_)
processLoopSkipping(g) ==
  IF g.cloudMsgQueue = <<>> THEN g
  ELSE LET msg == Head(g.cloudMsgQueue)
           res == getSensorPosition(msg.stamp, g.current_path)
       IN IF res.found
            THEN processLoopSkipping(
                   [g EXCEPT !.mapper = <<addPointCloudToScene(g.mapper[1], msg.cloud, res.pose)>>,
                             !.integrated = Append(@, msg.id),
                             !.cloudMsgQueue = Tail(@)])
            ELSE processLoopSkipping([g EXCEPT !.cloudMsgQueue = Tail(@)])

\* variant: the loop ends at a keyframe whose pose is not found and pops it
RECURSIVE processLoopDropping(_)
processLoopDropping(g) ==
  IF g.cloudMsgQueue = <<>> THEN g
  ELSE LET msg == Head(g.cloudMsgQueue)
           res == getSensorPosition(msg.stamp, g.current_path)
       IN IF res.found
            THEN processLoopDropping(
                   [g EXCEPT !.mapper = <<addPointCloudToScene(g.mapper[1], msg.cloud, res.pose)>>,
                             !.integrated = Append(@, msg.id),
                             !.cloudMsgQueue = Tail(@)])
            ELSE [g EXCEPT !.cloudMsgQueue = Tail(@)]

\* the while loop of processCloudMsgQueue
RECURSIVE processLoop(_)
processLoop(g) ==
  IF g.cloudMsgQueue = <<>> THEN g
  ELSE LET msg == Head(g.cloudMsgQueue)
           res == getSensorPosition(msg.stamp, g.current_path)
       IN IF res.found
            THEN processLoop(
                   [g EXCEPT !.mapper = <<addPointCloudToScene(g.mapper[1], msg.cloud, res.pose)>>,
                             !.integrated = Append(@, msg.id),
                             !.cloudMsgQueue = Tail(@)])
            ELSE g

\* variant: one keyframe per run (if instead of while)
processCloudMsgQueueOnce(g) ==
  IF g.mapper # <<>> /\ g.cloudMsgQueue # <<>>
    THEN LET msg == Head(g.cloudMsgQueue)
             res == getSensorPosition(msg.stamp, g.current_path)
         IN IF res.found
              THEN [g EXCEPT !.mapper = <<addPointCloudToScene(g.mapper[1], msg.cloud, res.pose)>>,
                             !.integrated = Append(@, msg.id),
                             !.cloudMsgQueue = Tail(@)]
              ELSE g
    ELSE g

processCloudMsgQueue(g) ==
  IF g.mapper # <<>> THEN processLoop(g) ELSE g

pathCallback(g, msg) == [g EXCEPT !.current_path = msg]

\* variant: a keyframe that arrives before the mapper exists is not buffered
keyframeCallbackUnbuffered(g, msg) ==
  IF g.mapper = <<>> THEN g
  ELSE processCloudMsgQueue([g EXCEPT !.cloudMsgQueue = Append(@, msg)])

keyframeCallback(g, msg) ==
  processCloudMsgQueue([g EXCEPT !.cloudMsgQueue = Append(@, msg)])

\* variant: every camera-info message builds a new mapper
cameraInfoCallbackEveryTime(g, msg, use_update_) ==
  LET camera_params == [alpha |-> msg.alpha, beta |-> msg.beta,
                        cx |-> msg.cx, cy |-> msg.cy]
  IN processCloudMsgQueue(
       [g EXCEPT !.mapper = <<SurfelMapper(scene_size, use_update_, camera_params)>>])

cameraInfoCallback(g, msg, use_update_) ==
  IF g.mapper = <<>>
    THEN LET camera_params == [alpha |-> msg.alpha, beta |-> msg.beta,
                               cx |-> msg.cx, cy |-> msg.cy]
         IN processCloudMsgQueue(
              [g EXCEPT !.mapper = <<SurfelMapper(scene_size, use_update_, camera_params)>>])
    ELSE g

Marker(id, point) == [id |-> id, x |-> point.x, z |-> point.z, finite |-> point.finite]

sendDownsampledMapMessage(m) == getCloudSceneDownsampled(m)

\* variant: a marker for every finite candidate
sendMapMessageEveryCandidate(m, min_bb, max_bb) ==
  LET cloudScene == getCloudScene(m)
      point_indices == getBoundingBoxIndices(m, min_bb, max_bb)
      nmarkers == Min(Len(point_indices), MAX_MARKERS)
      emitted == SelectSeq([n \in 1..nmarkers |-> n - 1],
                           LAMBDA i : cloudScene[point_indices[i + 1]].finite)
  IN [n \in 1..Len(emitted) |->
        Marker(emitted[n], cloudScene[point_indices[emitted[n] + 1]])]

\* variant: the markers are drawn from all indexed surfels
sendMapMessageAllIndices(m, min_bb, max_bb) ==
  LET cloudScene == getCloudScene(m)
      point_indices == getAllIndices(m)
      nmarkers == Min(Len(point_indices), MAX_MARKERS)
      emitted == SelectSeq([n \in 1..nmarkers |-> n - 1],
                           LAMBDA i : cloudScene[point_indices[i + 1]].finite /\ i % 2 = 0)
  IN [n \in 1..Len(emitted) |->
        Marker(emitted[n], cloudScene[point_indices[emitted[n] + 1]])]

sendMapMessage(m, min_bb, max_bb) ==
  LET cloudScene == getCloudScene(m)
      point_indices == getBoundingBoxIndices(m, min_bb, max_bb)
      nmarkers == Min(Len(point_indices), MAX_MARKERS)
      emitted == SelectSeq([n \in 1..nmarkers |-> n - 1],
                           LAMBDA i : cloudScene[point_indices[i + 1]].finite /\ i % 2 = 0)
  IN [n \in 1..Len(emitted) |->
        Marker(emitted[n], cloudScene[point_indices[emitted[n] + 1]])]

\* variant: the whole cloud is written, not the indexed records only
saveMapWholeCloud(m) ==
  LET cloud == getCloudScene(m)
  IN [n \in 1..m.scene_size |-> Marker(n, cloud[n])]

\* the points written to the file
saveMap(m) ==
  LET cloud == getCloudScene(m)
      indv == getAllIndices(m)
  IN [n \in 1..Len(indv) |-> Marker(n, cloud[indv[n]])]

\* variant: the request is acknowledged without resetting the map
resetMapCallbackSkipped(g) == g

\* variant: the reset also drops the buffered keyframes
resetMapCallbackClearingQueue(g) ==
  IF g.mapper # <<>>
    THEN [g EXCEPT !.mapper = <<resetMap(g.mapper[1])>>, !.cloudMsgQueue = <<>>]
    ELSE g

resetMapCallback(g) ==
  IF g.mapper # <<>> THEN [g EXCEPT !.mapper = <<resetMap(g.mapper[1])>>] ELSE g

\* variant: the service fails while the mapper does not exist
resetMapCallbackReturnIfMapper(g) == g.mapper # <<>>

\* what the service callbacks return to the caller
resetMapCallbackReturn(g) == TRUE
publishMapCallbackReturn(g) == TRUE
saveMapCallbackReturn(g) == TRUE

publishMapCallback(g, min_bb, max_bb) ==
  IF g.mapper # <<>> THEN sendMapMessage(g.mapper[1], min_bb, max_bb) ELSE <<>>

saveMapCallback(g) ==
  IF g.mapper # <<>> THEN saveMap(g.mapper[1]) ELSE <<>>

(***************************************************************************)
(* The main thread.  main() loops over ros::spinOnce(), which runs the     *)
(* pending callbacks one after the other on the calling thread,            *)
(* processCloudMsgQueue() and the preview publication.  A handler is       *)
(* entered (and does all its work) in one step and returns in another:     *)
(* between the two its name is in `active' and its output in `out'.        *)
(***************************************************************************)
\* variant: handlers are dispatched on several threads
CanDispatchAlways == TRUE

CanDispatch == active = {}

BBoxes ==
  { <<[x |-> 0, z |-> 0], [x |-> 3, z |-> 12]>>,
    <<[x |-> 2, z |-> 0], [x |-> 2, z |-> 5]>> }

NoLookup == [time_stamp |-> Stamp(0, 0), rounded |-> <<>>, res |-> <<>>]

Init ==
  /\ mapper = <<>>
  /\ current_path = NullPath
  /\ cloudMsgQueue = <<>>
  /\ use_update \in BOOLEAN
  /\ pc = "spin"
  /\ active = {}
  /\ out = <<>>
  /\ nKeyframes = 0
  /\ integrated = <<>>
  /\ lookup = NoLookup
  /\ ret = <<>>

Apply(g) ==
  /\ mapper' = g.mapper
  /\ current_path' = g.current_path
  /\ cloudMsgQueue' = g.cloudMsgQueue
  /\ integrated' = g.integrated

PathCallback ==
  /\ pc = "spin" /\ CanDispatch
  /\ \E msg \in PathMsgs : Apply(pathCallback(Globals, msg))
  /\ active' = active \cup {"pathCallback"}
  /\ out' = <<>>
  /\ UNCHANGED <<lookup, ret, use_update, pc, nKeyframes>>

KeyframeCallback ==
  /\ pc = "spin" /\ CanDispatch
  /\ nKeyframes < MaxKeyframes
  /\ \E stamp \in KeyframeStamps, cloud \in Clouds :
        Apply(keyframeCallback(Globals, KeyframeMsg(nKeyframes + 1, stamp, cloud)))
  /\ nKeyframes' = nKeyframes + 1
  /\ active' = active \cup {"keyframeCallback"}
  /\ out' = <<>>
  /\ UNCHANGED <<lookup, ret, use_update, pc>>

CameraInfoCallback ==
  /\ pc = "spin" /\ CanDispatch
  /\ \E msg \in CameraInfoMsgs : Apply(cameraInfoCallback(Globals, msg, use_update))
  /\ active' = active \cup {"cameraInfoCallback"}
  /\ out' = <<>>
  /\ UNCHANGED <<lookup, ret, use_update, pc, nKeyframes>>

ResetMapCallback ==
  /\ pc = "spin" /\ CanDispatch
  /\ Apply(resetMapCallback(Globals))
  /\ active' = active \cup {"resetMapCallback"}
  /\ out' = <<>>
  /\ ret' = <<resetMapCallbackReturn(Globals)>>
  /\ UNCHANGED <<lookup, use_update, pc, nKeyframes>>

PublishMapCallback ==
  /\ pc = "spin" /\ CanDispatch
  /\ \E bb \in BBoxes : out' = publishMapCallback(Globals, bb[1], bb[2])
  /\ ret' = <<publishMapCallbackReturn(Globals)>>
  /\ active' = active \cup {"publishMapCallback"}
  /\ UNCHANGED <<lookup, mapper, current_path, cloudMsgQueue, integrated, use_update, pc, nKeyframes>>

SaveMapCallback ==
  /\ pc = "spin" /\ CanDispatch
  /\ out' = saveMapCallback(Globals)
  /\ ret' = <<saveMapCallbackReturn(Globals)>>
  /\ active' = active \cup {"saveMapCallback"}
  /\ UNCHANGED <<lookup, mapper, current_path, cloudMsgQueue, integrated, use_update, pc, nKeyframes>>

\* spinOnce() has returned: main() calls processCloudMsgQueue()
MainProcess ==
  /\ pc = "spin" /\ CanDispatch
  /\ Apply(processCloudMsgQueue(Globals))
  /\ pc' = "preview"
  /\ active' = active \cup {"processCloudMsgQueue"}
  /\ out' = <<>>
  /\ UNCHANGED <<lookup, ret, use_update, nKeyframes>>

\* ... and then publishes the preview when the mapper exists
MainPreview ==
  /\ pc = "preview" /\ CanDispatch
  /\ out' = IF mapper # <<>> THEN sendDownsampledMapMessage(mapper[1]) ELSE <<>>
  /\ pc' = "spin"
  /\ active' = active \cup {"sendDownsampledMapMessage"}
  /\ UNCHANGED <<lookup, ret, mapper, current_path, cloudMsgQueue, integrated, use_update, nKeyframes>>

\* the handler returns
Return ==
  /\ \E op \in active : active' = active \ {op}
  /\ out' = <<>>
  /\ ret' = <<>>
  /\ UNCHANGED <<lookup, mapper, current_path, cloudMsgQueue, integrated, use_update, pc, nKeyframes>>

Next ==
  \/ PathCallback
  \/ KeyframeCallback
  \/ CameraInfoCallback
  \/ ResetMapCallback
  \/ PublishMapCallback
  \/ SaveMapCallback
  \/ MainProcess
  \/ MainPreview
  \/ Return

Spec == Init /\ [][Next]_vars

\* The loop of main() never ends and ros::spinOnce() returns after the
\* callbacks that were waiting: every handler returns, the preview follows
\* processCloudMsgQueue, and the main thread gets back to
\* processCloudMsgQueue again and again.
SpecLive ==
  /\ Spec
  /\ WF_vars(Return)
  /\ WF_vars(MainPreview)
  /\ []<><<MainProcess>>_vars

(***************************************************************************)
(* The time stamp functions on their own: a time stamp and a path are      *)
(* drawn, then roundTimeStamp and getSensorPosition are applied to them.   *)
(* Paths are time-ordered, as the odometry node publishes them.            *)
(***************************************************************************)
MaxPathLen == 3

LookupPoses ==
  << Pose(tB, 0), Pose(Stamp(1, 1600000), 1), Pose(Stamp(1, 4000000), 2),
     Pose(tC, 3), Pose(tD, 4) >>

RECURSIVE SubPath(_, _)
SubPath(S, k) ==
  IF k > Len(LookupPoses) THEN <<>>
  ELSE IF k \in S THEN <<LookupPoses[k]>> \o SubPath(S, k + 1)
  ELSE SubPath(S, k + 1)

LookupPaths ==
  {NullPath} \cup
  { PathMsg(SubPath(S, 1)) :
      S \in {T \in SUBSET (1..Len(LookupPoses)) : Cardinality(T) <= MaxPathLen} }

LookupStamps ==
  { Stamp(0, 5000000), Stamp(1, 300000), Stamp(1, 500000), Stamp(1, 500001),
    Stamp(1, 3000000), Stamp(1, 500000000), Stamp(1, 999500000),
    Stamp(1, 999500001), Stamp(1, 999999999), Stamp(2, 0), Stamp(3, 0),
    Stamp(100, 999501341) }

InitLookup ==
  /\ mapper = <<>>
  /\ current_path \in LookupPaths
  /\ cloudMsgQueue = <<>>
  /\ use_update = TRUE
  /\ pc = "test"
  /\ active = {}
  /\ out = <<>>
  /\ nKeyframes = 0
  /\ integrated = <<>>
  /\ \E time_stamp \in LookupStamps : lookup = [NoLookup EXCEPT !.time_stamp = time_stamp]
  /\ ret = <<>>

\* the time stamp is rounded, then the rounded time stamp is rounded again
\* (as getSensorPosition does with a time stamp it has already rounded)
RoundTimeStamp ==
  /\ pc = "test" /\ Len(lookup.rounded) < 2
  /\ lookup' = [lookup EXCEPT !.rounded =
        IF @ = <<>> THEN <<roundTimeStamp(lookup.time_stamp)>>
        ELSE Append(@, roundTimeStamp(@[Len(@)]))]
  /\ UNCHANGED <<mapper, current_path, cloudMsgQueue, use_update, pc, active, out,
                 nKeyframes, integrated, ret>>

GetSensorPosition ==
  /\ pc = "test" /\ lookup.res = <<>>
  /\ lookup' = [lookup EXCEPT !.res = <<getSensorPosition(lookup.time_stamp, current_path)>>]
  /\ UNCHANGED <<mapper, current_path, cloudMsgQueue, use_update, pc, active, out,
                 nKeyframes, integrated, ret>>

NextLookup ==
  \/ RoundTimeStamp
  \/ GetSensorPosition

SpecLookup == InitLookup /\ [][NextLookup]_vars

(***************************************************************************)
(* Properties.                                                             *)
(***************************************************************************)
HasMapper == mapper # <<>>
Found(msg) == getSensorPosition(msg.stamp, current_path).found
QueueRuns == {"keyframeCallback", "processCloudMsgQueue"}

\* C1: keyframes are integrated in arrival order: the keyframes passed to
\* addPointCloudToScene are a prefix of the keyframes received (arrival
\* numbers 1, 2, ...), and every buffered keyframe arrived after all of them,
\* so a head whose pose is not found holds back every later keyframe.
C1_ArrivalOrder ==
  /\ Len(integrated) <= nKeyframes
  /\ \A i \in 1..Len(integrated) : integrated[i] = i
  /\ \A n \in 1..Len(cloudMsgQueue) : cloudMsgQueue[n].id > Len(integrated)

\* a queue run has ended on a head without pose while the pose of the next
\* keyframe is available
C1_Witness ==
  /\ "processCloudMsgQueue" \in active
  /\ HasMapper
  /\ Len(cloudMsgQueue) >= 2
  /\ ~Found(cloudMsgQueue[1])
  /\ Found(cloudMsgQueue[2])

\* C2: while the mapper is not initialised no keyframe has been integrated
\* and every keyframe received is in the queue, in arrival order.
C2_NotReadyBuffers ==
  ~HasMapper =>
     /\ integrated = <<>>
     /\ Len(cloudMsgQueue) = nKeyframes
     /\ \A n \in 1..Len(cloudMsgQueue) : cloudMsgQueue[n].id = n

\* the queue has been processed without mapper although the path holds the
\* pose of the head
C2_Witness ==
  /\ ~HasMapper
  /\ "processCloudMsgQueue" \in active
  /\ Len(cloudMsgQueue) >= 2
  /\ Found(cloudMsgQueue[1])

\* the three failure cases of the pose lookup, on rounded time stamps
LookupFailureCase(time_stamp, path) ==
  \/ ~path.valid
  \/ path.poses = <<>>
  \/ TimeLT(roundTimeStamp(time_stamp), roundTimeStamp(path.poses[1].stamp))
  \/ TimeLT(roundTimeStamp(path.poses[Len(path.poses)].stamp), roundTimeStamp(time_stamp))

C3_LookupCases ==
  /\ \A ts \in KeyframeStamps :
        LET res == getSensorPosition(ts, current_path)
        IN /\ res.found <=> ~LookupFailureCase(ts, current_path)
           /\ res.found => \E k \in 1..Len(current_path.poses) : res.pose = current_path.poses[k]
  /\ (active \cap QueueRuns # {} /\ HasMapper /\ cloudMsgQueue # <<>>)
        => LookupFailureCase(cloudMsgQueue[1].stamp, current_path)

C3_FailedHeadStep ==
  (active = {} /\ active' \cap QueueRuns # {} /\ HasMapper)
     => /\ (integrated' = integrated => mapper' = mapper)
        /\ (cloudMsgQueue # <<>> /\ LookupFailureCase(cloudMsgQueue[1].stamp, current_path))
              => /\ integrated' = integrated
                 /\ mapper' = mapper
                 /\ cloudMsgQueue' # <<>>
                 /\ cloudMsgQueue'[1] = cloudMsgQueue[1]

\* C3: the pose lookup fails exactly when there is no path, the path has no
\* poses or the rounded time stamp is outside the rounded range of the path;
\* a queue run that finds the head without pose leaves it at the head and
\* leaves the map alone, and every queue run of the initialised node ends
\* with an empty queue or on a head whose lookup failed (it is tried again
\* on each run).
C3_LookupFailure == []C3_LookupCases /\ [][C3_FailedHeadStep]_vars

\* a queue run ended on a head whose rounded stamp is outside the range of a
\* path that has poses
C3_Witness ==
  /\ "processCloudMsgQueue" \in active
  /\ HasMapper
  /\ cloudMsgQueue # <<>>
  /\ current_path.valid
  /\ current_path.poses # <<>>
  /\ ~Found(cloudMsgQueue[1])
  /\ mapper[1].cloudScene # <<>>

(***************************************************************************)
(* Properties of the map.                                                  *)
(***************************************************************************)
M == mapper[1]

RECURSIVE PosesOf(_)
PosesOf(paths) ==
  IF paths = {} THEN {}
  ELSE LET path == CHOOSE q \in paths : TRUE
       IN {path.poses[k] : k \in 1..Len(path.poses)} \cup PosesOf(paths \ {path})

AllPoses == PosesOf(PathMsgs)

RECURSIVE PixelsOf(_)
PixelsOf(clouds) ==
  IF clouds = {} THEN {}
  ELSE LET cloud == CHOOSE q \in clouds : TRUE
       IN {cloud[k] : k \in 1..Len(cloud)} \cup PixelsOf(clouds \ {cloud})

AllPixels == PixelsOf(Clouds)
CloudWidth ==
  CHOOSE w \in {Len(cloud) : cloud \in Clouds} : \A cloud \in Clouds : Len(cloud) <= w

EntriesOf(m, i) == {n \in 1..Len(m.octree) : m.octree[n].idx = i}

\* C4: every allocated surfel index is held by exactly one octree leaf, the
\* leaf whose voxel contains the surfel's current position, after any
\* sequence of inserts, update blends and resets (so no update has moved a
\* surfel out of the voxel it is indexed under); the octree holds no other
\* index.
C4_IndexedUnderOwnVoxel ==
  HasMapper =>
    /\ \A i \in 1..Len(M.cloudScene) :
          /\ Cardinality(EntriesOf(M, i)) = 1
          /\ \A n \in EntriesOf(M, i) :
                M.octree[n].leaf = Voxel(M.cloudScene[i], octree_resolution)
    /\ \A n \in 1..Len(M.octree) : M.octree[n].idx \in 1..Len(M.cloudScene)

\* the surfel inserted at depth 4 (the lower face of its voxel) has been
\* blended with an observation at depth 3, in the next voxel
C4_Witness ==
  /\ HasMapper
  /\ Len(integrated) = 2
  /\ M.cloudScene = <<Surfel(1, 4, 2, TRUE), Surfel(2, 7, 1, TRUE)>>

\* C5: every index held by the spatial index references an allocated record
\* with a finite position, and so does every record saveMap writes.
C5_IndexedAreFinite ==
  /\ HasMapper =>
        \A n \in 1..Len(M.octree) :
           /\ M.octree[n].idx \in 1..Len(M.cloudScene)
           /\ getCloudScene(M)[getAllIndices(M)[n]].finite
  /\ "saveMapCallback" \in active => \A n \in 1..Len(out) : out[n].finite

\* a map with surfels and with free (non-finite) records has been saved
C5_Witness ==
  /\ "saveMapCallback" \in active
  /\ HasMapper
  /\ out # <<>>
  /\ Len(out) < M.scene_size

\* C6: no step decreases the confidence of a surfel that exists before and
\* after it (a reset leaves no surfel).
C6_ConfidenceMonotonic ==
  [][ (HasMapper /\ mapper' # <<>>) =>
        \A i \in 1..Min(Len(M.cloudScene), Len(mapper'[1].cloudScene)) :
           mapper'[1].cloudScene[i].c >= M.cloudScene[i].c ]_vars

\* a surfel has been updated
C6_Witness ==
  /\ HasMapper
  /\ \E i \in 1..Len(M.cloudScene) : M.cloudScene[i].c >= 2

\* the candidates of pixel u within the depth tolerance of the new point
InTolerance(m, u, px, pose) ==
  {i \in 1..Len(m.cloudScene) :
     /\ EntriesOf(m, i) # {}
     /\ InFrustum(m.cloudScene[i], pose, CloudWidth)
     /\ m.cloudScene[i].x = u
     /\ Abs((m.cloudScene[i].z - pose.off) - px.z) < dmax}

UpdatedInPlace(m, r, u, px, pose) ==
  /\ Len(r.cloudScene) = Len(m.cloudScene)
  /\ r.octree = m.octree
  /\ \E i \in InTolerance(m, u, px, pose) :
        /\ \A j \in InTolerance(m, u, px, pose) :
              DepthGap(m, i, pose, px.z) <= DepthGap(m, j, pose, px.z)
        /\ r.cloudScene[i].c = m.cloudScene[i].c + 1
        /\ \A j \in 1..Len(m.cloudScene) : j # i => r.cloudScene[j] = m.cloudScene[j]

InsertedOne(m, r, u, px, pose) ==
  /\ Len(r.cloudScene) = Len(m.cloudScene) + 1
  /\ \A j \in 1..Len(m.cloudScene) : r.cloudScene[j] = m.cloudScene[j]
  /\ r.cloudScene[Len(r.cloudScene)] = Surfel(u, px.z + pose.off, 1, TRUE)
  /\ Cardinality(EntriesOf(r, Len(r.cloudScene))) = 1
  /\ Len(r.octree) = Len(m.octree) + 1

Refused(m, r) ==
  /\ r.cloudScene = m.cloudScene
  /\ r.octree = m.octree
  /\ r.status = "OutOfCapacity"

\* the statement of C7 as written: an unmatched pixel always allocates
C7_Original ==
  (HasMapper /\ M.use_update) =>
     \A u \in 1..CloudWidth, px \in AllPixels, pose \in AllPoses :
        Survives(px) =>
           LET r == FusePixel(M, u, px, pose, CloudWidth)
           IN IF InTolerance(M, u, px, pose) # {}
                THEN UpdatedInPlace(M, r, u, px, pose)
                ELSE InsertedOne(M, r, u, px, pose)

\* C7 (amended): with use_update on, a surviving pixel with a candidate at the
\* same pixel within dmax updates the closest one (confidence + 1, nothing
\* allocated); otherwise, while the store has a free record, exactly one
\* surfel with confidence 1 is allocated and indexed, and when the store is
\* full nothing is allocated and the call reports OutOfCapacity.  So a
\* re-observation within tolerance of a lone surfel leaves one surfel with
\* confidence 2, and out of tolerance two surfels with confidence 1 each.
C7_UpdateOrInsert ==
  (HasMapper /\ M.use_update) =>
     \A u \in 1..CloudWidth, px \in AllPixels, pose \in AllPoses :
        Survives(px) =>
           LET r == FusePixel(M, u, px, pose, CloudWidth)
           IN /\ IF InTolerance(M, u, px, pose) # {}
                   THEN UpdatedInPlace(M, r, u, px, pose)
                   ELSE IF Len(M.cloudScene) < M.scene_size
                          THEN InsertedOne(M, r, u, px, pose)
                          ELSE Refused(M, r)
              /\ (Len(M.cloudScene) = 1 /\ M.cloudScene[1].c = 1 /\ M.scene_size >= 2) =>
                    IF InTolerance(M, u, px, pose) # {}
                      THEN Len(r.cloudScene) = 1 /\ r.cloudScene[1].c = 2
                      ELSE /\ Len(r.cloudScene) = 2
                           /\ r.cloudScene[1].c = 1
                           /\ r.cloudScene[2].c = 1

\* one pixel has been observed twice within tolerance: one surfel, confidence 2
C7_Witness ==
  /\ HasMapper
  /\ M.use_update
  /\ active \cap QueueRuns # {}
  /\ Len(integrated) = 2
  /\ Len(M.cloudScene) = 1
  /\ M.cloudScene[1].c = 2

Discoverable(m) == \A i \in 1..Len(m.cloudScene) : \E n \in 1..Len(m.octree) : m.octree[n].idx = i

\* C8: the store never holds more than scene_size surfels and every surfel
\* in it is discoverable through the index; a keyframe that needs more
\* insertions than there are free records fills the store, reports
\* OutOfCapacity and keeps the surfels it inserted before the store was full
\* (the same ones an unbounded store would have received first); a keyframe
\* that fits is integrated in full (keyframes the core accepts: unit
\* quaternion, positive intrinsics).
C8_Capacity ==
  HasMapper =>
    /\ Len(M.cloudScene) <= M.scene_size
    /\ Discoverable(M)
    /\ M.status = "OutOfCapacity" => Len(M.cloudScene) = M.scene_size
    /\ \A cloud \in Clouds, pose \in {q \in AllPoses : ValidInput(M, q)} :
          LET r == addPointCloudToScene(M, cloud, pose)
              unbounded == addPointCloudToScene(
                              [M EXCEPT !.scene_size = Len(M.cloudScene) + Len(cloud)],
                              cloud, pose)
              needed == Len(unbounded.cloudScene) - Len(M.cloudScene)
              free == M.scene_size - Len(M.cloudScene)
          IN IF needed > free
               THEN /\ r.status = "OutOfCapacity"
                    /\ Len(r.cloudScene) = M.scene_size
                    /\ \A i \in (Len(M.cloudScene) + 1)..M.scene_size :
                          r.cloudScene[i] = unbounded.cloudScene[i]
                    /\ Len(r.octree) = Len(M.octree) + free
                    /\ Discoverable(r)
               ELSE /\ r.status = "Ok"
                    /\ r.cloudScene = unbounded.cloudScene
                    /\ r.octree = unbounded.octree

\* the second keyframe needed two records when one was free
C8_Witness ==
  /\ HasMapper
  /\ active \cap QueueRuns # {}
  /\ M.status = "OutOfCapacity"
  /\ Len(integrated) = 2
  /\ Len(M.cloudScene) = M.scene_size

\* C9: after the reset service has reset the map the store and
\* getAllIndices() are empty, and resetting a map twice gives what resetting
\* it once gives.
C9_ResetEmpties ==
  /\ ("resetMapCallback" \in active /\ HasMapper) =>
        /\ getAllIndices(M) = <<>>
        /\ M.cloudScene = <<>>
  /\ HasMapper =>
        /\ getAllIndices(resetMap(M)) = <<>>
        /\ resetMap(M).cloudScene = <<>>
        /\ resetMap(resetMap(M)) = resetMap(M)
  /\ resetMapCallback(resetMapCallback(Globals)) = resetMapCallback(Globals)

\* the reset service has been served after keyframes had been integrated
C9_Witness ==
  /\ "resetMapCallback" \in active
  /\ HasMapper
  /\ Len(integrated) >= 2

C10_OneAtATime == Cardinality(active) <= 1

C10_NoInterference ==
  active # {} =>
     /\ active' \subseteq active
     /\ mapper' = mapper
     /\ cloudMsgQueue' = cloudMsgQueue
     /\ current_path' = current_path
     /\ integrated' = integrated

\* C10: at most one handler (callback, queue processing, preview
\* publication) is being executed at any time, and from the moment a handler
\* is entered until it returns no other handler is entered and nothing else
\* changes the map, the queue or the path.
C10_RunToCompletion == []C10_OneAtATime /\ [][C10_NoInterference]_vars

\* keyframeCallback is being executed and has integrated its keyframe
C10_Witness ==
  /\ active = {"keyframeCallback"}
  /\ HasMapper
  /\ nKeyframes >= 1
  /\ Len(integrated) = nKeyframes
  /\ M.cloudScene # <<>>

\* the step enters the handler op
Entered(op) == op \notin active /\ op \in active'

C11_CameraInfoStep ==
  Entered("cameraInfoCallback") =>
    IF HasMapper
      THEN /\ mapper' = mapper
           /\ cloudMsgQueue' = cloudMsgQueue
           /\ current_path' = current_path
           /\ integrated' = integrated
      ELSE /\ mapper' # <<>>
           /\ \E msg \in CameraInfoMsgs :
                 mapper'[1].camera_params =
                    [alpha |-> msg.alpha, beta |-> msg.beta, cx |-> msg.cx, cy |-> msg.cy]

\* C11: intrinsics are accepted once: the first camera-info message creates
\* the mapper with the parameters of that message; every later camera-info
\* message leaves the mapper (its map and its camera parameters), the
\* keyframe queue, the path and the integration history unchanged.
C11_IntrinsicsOnce == [][C11_CameraInfoStep]_vars

\* a later camera-info message arrived while the map held surfels and a
\* keyframe whose pose is known was waiting
C11_Witness ==
  /\ "cameraInfoCallback" \in active
  /\ HasMapper
  /\ M.cloudScene # <<>>
  /\ cloudMsgQueue # <<>>
  /\ Found(cloudMsgQueue[1])

(***************************************************************************)
(* Properties of the time stamp functions (specification SpecLookup).      *)
(***************************************************************************)
LookupDone == lookup.res # <<>>
Res == lookup.res[1]
Searched == roundTimeStamp(lookup.time_stamp)
PathPoses == current_path.poses

\* the poses of the path with the rounded time stamp searched for
ExactPoses ==
  {k \in 1..Len(PathPoses) : roundTimeStamp(PathPoses[k].stamp) = Searched}

\* the searched time stamp lies within the rounded [first, last] of the path
InRoundedRange ==
  /\ current_path.valid
  /\ PathPoses # <<>>
  /\ TimeLE(roundTimeStamp(PathPoses[1].stamp), Searched)
  /\ TimeLE(Searched, roundTimeStamp(PathPoses[Len(PathPoses)].stamp))

\* the claim as stated: success only on an exact match, which is returned
C12_Original ==
  (LookupDone /\ Res.found) =>
     /\ ExactPoses # {}
     /\ roundTimeStamp(Res.pose.stamp) = Searched

\* C12: the pose lookup is a nearest-match within the rounded range: it
\* succeeds exactly when the rounded keyframe time stamp lies within the
\* rounded [first, last] range of a non-empty path, also when no pose of
\* the path has that rounded time stamp; the pose returned is a pose of the
\* path, and it has the keyframe's rounded time stamp whenever the
\* (time-ordered) path contains a pose with that rounded time stamp.
C12_RangeMatch ==
  LookupDone =>
     /\ Res.found <=> InRoundedRange
     /\ Res.found => \E k \in 1..Len(PathPoses) : Res.pose = PathPoses[k]
     /\ (Res.found /\ ExactPoses # {}) => roundTimeStamp(Res.pose.stamp) = Searched

\* an exact match was found by bisection in a path of three poses
C12_Witness ==
  /\ LookupDone /\ Res.found
  /\ Len(PathPoses) >= 3
  /\ ExactPoses # {}
  /\ roundTimeStamp(Res.pose.stamp) = Searched

\* distance in rounded time between a pose and the time stamp searched for
Dist(pose) ==
  LET t == roundTimeStamp(pose.stamp)
  IN IF TimeLE(t, Searched) THEN DurationOf(Searched, t) ELSE DurationOf(t, Searched)

\* C13: for a time-ordered path of any length >= 1, a successful lookup
\* returns a pose whose rounded time stamp is nearest to the rounded
\* keyframe time stamp (no pose of the path is strictly closer), and of
\* equally distant poses the later one is returned.
C13_Nearest ==
  (LookupDone /\ Res.found) =>
     \A k \in 1..Len(PathPoses) :
        /\ ~DurationLT(Dist(PathPoses[k]), Dist(Res.pose))
        /\ Dist(PathPoses[k]) = Dist(Res.pose)
              => TimeLE(roundTimeStamp(PathPoses[k].stamp), roundTimeStamp(Res.pose.stamp))

\* the two bracketing poses were equally distant
C13_Witness ==
  /\ LookupDone /\ Res.found
  /\ \E k \in 1..Len(PathPoses) :
        /\ PathPoses[k] # Res.pose
        /\ Dist(PathPoses[k]) = Dist(Res.pose)

RoundDone == lookup.rounded # <<>>
Rounded == lookup.rounded[1]
Remainder == lookup.time_stamp.nsec % 1000000

\* the full millisecond below the time stamp, and the one above it
RoundedDown ==
  [sec |-> lookup.time_stamp.sec, nsec |-> lookup.time_stamp.nsec - Remainder]
RoundedUp ==
  IF RoundedDown.nsec + 1000000 = 1000000000
    THEN [sec |-> lookup.time_stamp.sec + 1, nsec |-> 0]
    ELSE [sec |-> lookup.time_stamp.sec, nsec |-> RoundedDown.nsec + 1000000]

\* the claim as stated: a remainder of exactly 500000 ns rounds upward
C14_Original ==
  RoundDone => Rounded = IF Remainder >= 500000 THEN RoundedUp ELSE RoundedDown

\* C14: time stamps are rounded to the nearest millisecond, a remainder of
\* exactly 0.5 ms (500000 ns) rounding downward: remainders above 500000 ns
\* round up to the next millisecond (carrying into the seconds), remainders
\* of 500000 ns or less round down.
C14_HalfDown ==
  RoundDone => Rounded = IF Remainder > 500000 THEN RoundedUp ELSE RoundedDown

\* a time stamp with a remainder of exactly 0.5 ms has been rounded
C14_Witness ==
  /\ RoundDone
  /\ Remainder = 500000
  /\ Rounded = RoundedDown

(***************************************************************************)
(* Properties of the node and the core, continued (specification Spec).    *)
(***************************************************************************)
\* C15: invalid input is refused without mutation: a mapper is never
\* created from intrinsics with a non-positive focal length or principal
\* point, and a keyframe whose pose quaternion is not of unit norm (or
\* that meets such intrinsics) ends with InvalidInput and leaves the
\* store and the index as they were.
C15_InvalidInputRefused ==
  HasMapper =>
    /\ ValidIntrinsics(M.camera_params)
    /\ \A cloud \in Clouds, pose \in AllPoses :
          ~ValidInput(M, pose) =>
             LET r == addPointCloudToScene(M, cloud, pose)
             IN /\ r.status = "InvalidInput"
                /\ r.cloudScene = M.cloudScene
                /\ r.octree = M.octree

\* the pixels of a cloud that pass all filters: finite point and normal,
\* z-normal threshold, depth range
PassingPixels(cloud) ==
  {u \in 1..Len(cloud) :
     /\ cloud[u].finite /\ cloud[u].nfinite
     /\ cloud[u].nz >= min_scan_znormal
     /\ cloud[u].z >= min_kinect_dist /\ cloud[u].z <= max_kinect_dist}

ValidPoses == {q \in AllPoses : ValidInput(M, q)}

\* the claim as stated: one surfel per passing pixel, whatever their number
C16_Original ==
  (HasMapper /\ ~M.use_update /\ M.cloudScene = <<>>) =>
     \A cloud \in Clouds, pose \in ValidPoses :
        LET r == addPointCloudToScene(M, cloud, pose)
        IN /\ Len(r.cloudScene) = Cardinality(PassingPixels(cloud))
           /\ \A i \in 1..Len(r.cloudScene) : r.cloudScene[i].c = 1

\* C16: with use_update = false no pixel is matched: ingesting a keyframe
\* changes no surfel the map already holds. Starting from an empty map, the
\* number of surfels after a single keyframe equals the number of its
\* pixels that pass all filters when that number does not exceed
\* scene_size, every such pixel inserting one surfel of confidence 1; when
\* more pixels pass than the store has records, the store is filled
\* (scene_size surfels) and the ingest ends with OutOfCapacity.
C16_InsertOnly ==
  (HasMapper /\ ~M.use_update) =>
     \A cloud \in Clouds, pose \in ValidPoses :
        LET r == addPointCloudToScene(M, cloud, pose)
            passing == Cardinality(PassingPixels(cloud))
        IN /\ \A i \in 1..Len(M.cloudScene) : r.cloudScene[i] = M.cloudScene[i]
           /\ M.cloudScene = <<>> =>
                 /\ Len(r.cloudScene) = Min(passing, M.scene_size)
                 /\ \A i \in 1..Len(r.cloudScene) : r.cloudScene[i].c = 1
                 /\ r.status = IF passing > M.scene_size THEN "OutOfCapacity" ELSE "Ok"

\* without update, the queue run integrated a single keyframe with one
\* passing pixel into the empty map
C16_Witness ==
  /\ HasMapper /\ ~M.use_update
  /\ active \cap QueueRuns # {}
  /\ Len(integrated) = 1
  /\ M.status = "Ok"
  /\ Len(M.cloudScene) = 1
  /\ M.cloudScene[1].c = 1

\* the map without the surfels below the confidence threshold
ReliableOnly(m) ==
  [m EXCEPT !.octree =
     SelectSeq(m.octree, LAMBDA e : m.cloudScene[e.idx].c >= confidence_threshold)]

\* C17: only reliable surfels reach the outside: every index returned by
\* getBoundingBoxIndices has confidence c >= confidence_threshold and lies
\* in the box, every marker the publish service emits is at the position
\* of such a surfel, and the preview is the same as that of the map with
\* all surfels of c < confidence_threshold removed.
C17_ReliableOnly ==
  HasMapper =>
    /\ \A bb \in BBoxes :
          LET point_indices == getBoundingBoxIndices(M, bb[1], bb[2])
          IN \A n \in 1..Len(point_indices) :
                /\ point_indices[n] \in 1..Len(M.cloudScene)
                /\ M.cloudScene[point_indices[n]].c >= confidence_threshold
    /\ getCloudSceneDownsampled(M) = getCloudSceneDownsampled(ReliableOnly(M))
    /\ "publishMapCallback" \in active =>
          \A n \in 1..Len(out) :
             \E i \in 1..Len(M.cloudScene) :
                /\ M.cloudScene[i].c >= confidence_threshold
                /\ M.cloudScene[i].x = out[n].x /\ M.cloudScene[i].z = out[n].z
    /\ "sendDownsampledMapMessage" \in active =>
          out = getCloudSceneDownsampled(ReliableOnly(M))

\* the publish service emitted a marker while the map also held a surfel
\* below the threshold
C17_Witness ==
  /\ HasMapper
  /\ "publishMapCallback" \in active
  /\ out # <<>>
  /\ \E i \in 1..Len(M.cloudScene) : M.cloudScene[i].c < confidence_threshold

\* how often keyframe id is in the queue / was handed to addPointCloudToScene
TimesQueued(id) ==
  Cardinality({n \in 1..Len(cloudMsgQueue) : cloudMsgQueue[n].id = id})
TimesIntegrated(id) ==
  Cardinality({n \in 1..Len(integrated) : integrated[n] = id})

\* C18: every keyframe received by keyframeCallback is either in the queue
\* exactly once or has been handed to addPointCloudToScene exactly once,
\* never both and never neither, and nothing else is in the queue or in
\* the integration history.
C18_QueuedOrIntegrated ==
  /\ \A id \in 1..nKeyframes : TimesQueued(id) + TimesIntegrated(id) = 1
  /\ \A n \in 1..Len(cloudMsgQueue) : cloudMsgQueue[n].id \in 1..nKeyframes
  /\ \A n \in 1..Len(integrated) : integrated[n] \in 1..nKeyframes

\* after a reset, one keyframe has been integrated and another is waiting
C18_Witness ==
  /\ "resetMapCallback" \in active
  /\ nKeyframes = 2
  /\ TimesIntegrated(1) = 1
  /\ TimesQueued(2) = 1

\* the current path covers the time stamp of every queued keyframe
AllQueuedFound == \A n \in 1..Len(cloudMsgQueue) : Found(cloudMsgQueue[n])

\* the step runs processCloudMsgQueue with the mapper present: a main-loop
\* iteration, a keyframe arrival or the first camera-info arrival
QueueRunStep ==
  /\ mapper' # <<>>
  /\ \/ Entered("processCloudMsgQueue")
     \/ Entered("keyframeCallback")
     \/ Entered("cameraInfoCallback") /\ mapper = <<>>

C19_RunStep ==
  /\ QueueRunStep =>
        /\ current_path' = current_path
        /\ (\A n \in 1..Len(cloudMsgQueue') :
               getSensorPosition(cloudMsgQueue'[n].stamp, current_path).found)
             => /\ cloudMsgQueue' = <<>>
                /\ \A n \in 1..Len(cloudMsgQueue) :
                       \E k \in (Len(integrated) + 1)..Len(integrated') :
                          integrated'[k] = cloudMsgQueue[n].id
  /\ Entered("pathCallback") =>
        /\ integrated' = integrated
        /\ cloudMsgQueue' = cloudMsgQueue
        /\ mapper' = mapper

C19_Eventually ==
  (HasMapper /\ cloudMsgQueue # <<>>) ~> (cloudMsgQueue = <<>> \/ ~AllQueuedFound)

\* C19: buffered keyframes are eventually integrated: a run of
\* processCloudMsgQueue with the mapper present (main-loop iteration,
\* keyframe arrival, first camera-info arrival) during which the path covers
\* the rounded time stamp of every queued keyframe integrates all of them
\* and leaves the queue empty; a path arrival alone integrates nothing; and
\* once the mapper exists, a non-empty queue is eventually emptied unless
\* the path fails to cover one of the queued keyframes.
C19_EventuallyIntegrated == [][C19_RunStep]_vars /\ C19_Eventually

\* the main loop has emptied the queue and two keyframes are integrated
C19_Witness ==
  /\ HasMapper
  /\ "processCloudMsgQueue" \in active
  /\ cloudMsgQueue = <<>>
  /\ Len(integrated) = 2
  /\ current_path.valid

C20_ResetStep ==
  Entered("resetMapCallback") =>
    /\ cloudMsgQueue' = cloudMsgQueue
    /\ current_path' = current_path
    /\ integrated' = integrated
    /\ (mapper' = <<>>) <=> (mapper = <<>>)
    /\ HasMapper =>
          /\ mapper'[1].camera_params = M.camera_params
          /\ mapper'[1].scene_size = M.scene_size
          /\ mapper'[1].use_update = M.use_update

\* in the state the reset leaves, a run of processCloudMsgQueue integrates
\* the buffered keyframes whose poses are known, the head first, starting
\* from the empty map
C20_AfterReset ==
  ("resetMapCallback" \in active /\ HasMapper /\ cloudMsgQueue # <<>>
      /\ Found(cloudMsgQueue[1])) =>
    LET g == processCloudMsgQueue(Globals)
        msg == cloudMsgQueue[1]
        pose == getSensorPosition(msg.stamp, current_path).pose
    IN /\ M.cloudScene = <<>>
       /\ Len(g.integrated) > Len(integrated)
       /\ g.integrated[Len(integrated) + 1] = msg.id
       /\ Len(g.cloudMsgQueue) < Len(cloudMsgQueue)
       /\ Len(g.cloudMsgQueue) = Len(cloudMsgQueue) - 1 =>
             g.mapper[1] = addPointCloudToScene(M, msg.cloud, pose)

\* C20: the reset service clears only the map: the keyframe queue, the
\* current path, the integration history, the existence of the mapper and
\* its parameters (intrinsics, capacity, update mode) are unchanged, and
\* the keyframes buffered before the reset are integrated by the next
\* queue run, into the emptied map.
C20_ResetClearsOnlyMap == [][C20_ResetStep]_vars /\ []C20_AfterReset

\* the map was reset while a keyframe whose pose is known was waiting
C20_Witness ==
  /\ "resetMapCallback" \in active
  /\ HasMapper
  /\ cloudMsgQueue # <<>>
  /\ Found(cloudMsgQueue[1])
  /\ integrated # <<>>

(***************************************************************************)
(* Properties of roundTimeStamp, continued (specification SpecLookup).     *)
(***************************************************************************)
\* C21: for a time stamp with nsec < 1,000,000,000 roundTimeStamp returns a
\* normalised time stamp: its nsec is a multiple of 1,000,000 below
\* 1,000,000,000; a round-up that reaches a full second carries into the
\* seconds (sec + 1, nsec = 0), so 100 s 999501341 ns gives 101 s 0 ns; and
\* rounding a rounded time stamp returns it unchanged.
C21_Normalised ==
  RoundDone =>
    /\ Rounded.nsec % 1000000 = 0
    /\ Rounded.nsec >= 0 /\ Rounded.nsec < 1000000000
    /\ lookup.time_stamp.nsec - Remainder = 999000000 /\ Remainder > 500000
          => Rounded = [sec |-> lookup.time_stamp.sec + 1, nsec |-> 0]
    /\ lookup.time_stamp = Stamp(100, 999501341) => Rounded = Stamp(101, 0)
    /\ \A n \in 2..Len(lookup.rounded) : lookup.rounded[n] = Rounded

\* the time stamp of the test in main() was rounded with a carry into the
\* seconds, and the result was rounded again
C21_Witness ==
  /\ Len(lookup.rounded) = 2
  /\ lookup.time_stamp = Stamp(100, 999501341)
  /\ lookup.rounded[2] = Stamp(101, 0)

\* C23: roundTimeStamp is monotone: a time stamp not later than another is
\* not later after rounding either, so a path ordered by raw time stamps is
\* still ordered after rounding, as the range test and the bisection of
\* getSensorPosition need.
C23_Monotone ==
  /\ RoundDone =>
        \A t \in LookupStamps \cup {PathPoses[k].stamp : k \in 1..Len(PathPoses)} :
           /\ TimeLE(lookup.time_stamp, t) => TimeLE(Rounded, roundTimeStamp(t))
           /\ TimeLE(t, lookup.time_stamp) => TimeLE(roundTimeStamp(t), Rounded)
  /\ \A k \in 1..(Len(PathPoses) - 1) :
        TimeLE(PathPoses[k].stamp, PathPoses[k + 1].stamp)
           => TimeLE(roundTimeStamp(PathPoses[k].stamp),
                     roundTimeStamp(PathPoses[k + 1].stamp))

\* a time stamp was rounded up into the next second, where a later time
\* stamp is rounded to as well, and the path holds three ordered poses
C23_Witness ==
  /\ RoundDone
  /\ Rounded.sec = lookup.time_stamp.sec + 1
  /\ \E t \in LookupStamps :
        /\ TimeLT(lookup.time_stamp, t)
        /\ roundTimeStamp(t) = Rounded
  /\ Len(PathPoses) >= 3

(***************************************************************************)
(* Properties of the services (specification Spec).                        *)
(***************************************************************************)
\* the bounding-box indices considered for a request, and among them the
\* ones of surfels with a finite position
Considered(bb) ==
  LET point_indices == getBoundingBoxIndices(M, bb[1], bb[2])
  IN SubSeq(point_indices, 1, Min(Len(point_indices), MAX_MARKERS))
ValidCandidates(bb) ==
  SelectSeq(Considered(bb), LAMBDA i : getCloudScene(M)[i].finite)

\* markers are emitted for the 1st, 3rd, 5th, ... valid candidate, at its
\* position, with pairwise distinct ids
EveryOtherValid(markers, bb) ==
  LET valid == ValidCandidates(bb)
  IN /\ Len(markers) = (Len(valid) + 1) \div 2
     /\ \A n \in 1..Len(markers) :
           /\ markers[n].finite
           /\ markers[n].x = M.cloudScene[valid[2 * n - 1]].x
           /\ markers[n].z = M.cloudScene[valid[2 * n - 1]].z
     /\ \A n, k \in 1..Len(markers) : n # k => markers[n].id # markers[k].id

Services == {"resetMapCallback", "publishMapCallback", "saveMapCallback"}

C24_ServiceStep ==
  (mapper = <<>> /\ \E op \in Services : Entered(op)) =>
     /\ mapper' = <<>>
     /\ cloudMsgQueue' = cloudMsgQueue
     /\ current_path' = current_path
     /\ integrated' = integrated
     /\ nKeyframes' = nKeyframes
     /\ pc' = pc
     /\ out' = <<>>
     /\ ret' = <<TRUE>>

\* C24: a reset, publish or save request served before the mapper exists
\* changes nothing (no map, queue or path change, nothing published and
\* nothing written to the file) and returns true to the caller.
C24_ServicesBeforeInit == [][C24_ServiceStep]_vars

\* a service returned success without a mapper while a keyframe and a
\* path were held
C24_Witness ==
  /\ mapper = <<>>
  /\ active \cap Services # {}
  /\ ret = <<TRUE>>
  /\ cloudMsgQueue # <<>>
  /\ current_path.valid
====
